---- MODULE Spec2Model ----
(***************************************************************************)
(* Model of mandarin_converter.py: the annotation pipeline (process_text), *)
(* the translation cache (load_translation_cache, save_translation_cache,  *)
(* translate_word) and the vocabulary statistics of generate_html / main.  *)
(*                                                                         *)
(* Strings are sequences of Unicode code points.  A run is one call of     *)
(* process_text followed by the statistics; runs follow one another and    *)
(* share the cache file.                                                   *)
(***************************************************************************)
EXTENDS Integers, Sequences, FiniteSets, TLC

(* ---------------------------- bounds ---------------------------------- *)

\* longest token sequence the segmenter yields for the input text
MaxTokens == 2

\* number of consecutive runs over the same cache file
NumRuns == 2

\* longest string given to is_chinese when it is called on its own
MaxProbeLen == 2

Runs == 1..NumRuns

(* ---------------------------- strings --------------------------------- *)

\* "一" (U+4E00), the first code point of the range tested by is_chinese
Yi == <<19968>>
\* " 一\n": the same word with surrounding whitespace
SpYi == <<32, 19968, 10>>
\* "2年": digits mixed with one ideograph (U+5E74)
Nian == <<50, 24180>>
\* "。" (U+3002)
Dot == <<12290>>
\* " "
Blank == <<32>>

\* the tokens the segmenter may yield
Tokens == {Yi, SpYi, Nian, Dot, Blank}

\* translations the translator may return ("een", "jaar")
Glosses == {<<101, 101, 110>>, <<106, 97, 97, 114>>}

\* "?" returned by translate_word when the try block fails
QuestionMark == <<63>>

\* code points str.strip() removes: space, \t, \n, \r, ideographic space
WhitespaceChars == {32, 9, 10, 13, 12288}

\* the characters of the punctuation literal of translate_word
PunctChars == {12290, 65292, 65281, 65311, 12289, 65307, 65306, 34,
               65288, 65289, 12304, 12305, 12298, 12299, 8230, 8212}

RECURSIVE LStrip(_)
LStrip(s) ==
    IF s # <<>> /\ Head(s) \in WhitespaceChars THEN LStrip(Tail(s)) ELSE s

RECURSIVE RStrip(_)
RStrip(s) ==
    IF s # <<>> /\ s[Len(s)] \in WhitespaceChars
    THEN RStrip(SubSeq(s, 1, Len(s) - 1))
    ELSE s

\* str.strip()
Strip(s) == RStrip(LStrip(s))

\* faulty variant: `return False` inside the loop, so only the first character counts
is_chinese_FirstOnly(text) ==
    text # <<>> /\ 19968 <= Head(text) /\ Head(text) <= 40959

\* for char in text: if '一' <= char <= '鿿': return True
RECURSIVE is_chinese(_)
is_chinese(text) ==
    IF text = <<>> THEN FALSE
    ELSE IF 19968 <= Head(text) /\ Head(text) <= 40959 THEN TRUE
    ELSE is_chinese(Tail(text))

\* pypinyin.pinyin(text, style=Style.TONE) joined: an external transcriber,
\* total on strings; its output is a string other than its input
get_pinyin(text) == [i \in DOMAIN text |-> 0 - text[i]]

\* jieba.cut: the input text is represented by the tokens jieba yields for it
segment_text(text) == text

(* ------------------------- reference data ----------------------------- *)

\* hsk_data.get_hsk_level: a pure total lookup, (0, 0) when the word is unknown
get_hsk_level(word) ==
    IF word = Yi THEN <<1, 1>> ELSE <<0, 0>>

\* None
NoBreakdown == [present |-> FALSE, chars |-> <<>>]

\* hsk_data.get_character_breakdown: a pure total lookup
get_character_breakdown(word) ==
    IF Len(word) > 1 THEN [present |-> TRUE, chars |-> word] ELSE NoBreakdown

(* --------------------------- cache values ----------------------------- *)

\* what json.load can return: a dict, a list or a number
EmptyMap == [w \in {} |-> <<>>]
Dict(m) == [type |-> "dict", map |-> m, items |-> {}]
List(s) == [type |-> "list", map |-> EmptyMap, items |-> s]
Number == [type |-> "number", map |-> EmptyMap, items |-> {}]
EmptyDict == Dict(EmptyMap)

\* the cache file: absent, not openable for reading, not valid UTF-8,
\* not valid JSON, or a JSON document
Absent == [kind |-> "absent", value |-> EmptyDict]
Unreadable == [kind |-> "unreadable", value |-> EmptyDict]
Undecodable == [kind |-> "undecodable", value |-> EmptyDict]
Unparseable == [kind |-> "unparseable", value |-> EmptyDict]
Json(v) == [kind |-> "json", value |-> v]

\* the cache files a first run may find: none, one that cannot be read,
\* decoded or parsed, {"一": "een"}, ["一"] and 5
InitStores ==
    {Absent, Unreadable, Undecodable, Unparseable,
     Json(Dict([w \in {Yi} |-> <<101, 101, 110>>])),
     Json(List({Yi})), Json(Number)}

(* ------------------------ the cache on disk --------------------------- *)

\* load_translation_cache: exc is the exception that leaves the function
\* ("" when it returns).  UnicodeDecodeError is a ValueError that is neither
\* a JSONDecodeError nor an IOError, so the except clause does not catch it.
load_translation_cache(st) ==
    IF st.kind = "absent" THEN [exc |-> "", value |-> EmptyDict]
    ELSE IF st.kind \in {"unreadable", "unparseable"}
         THEN [exc |-> "", value |-> EmptyDict]
    ELSE IF st.kind = "undecodable"
         THEN [exc |-> "UnicodeDecodeError", value |-> EmptyDict]
    ELSE [exc |-> "", value |-> st.value]

\* outcomes of opening and writing the cache file
WriteOutcomes == {"ok", "open_fails", "write_fails"}

\* faulty variant: the except clause prints nothing and lets the IOError through
save_translation_cache_Reraise(c, st, io) ==
    IF io = "ok" THEN [store |-> Json(c), warning |-> FALSE, exc |-> ""]
    ELSE IF io = "open_fails" THEN [store |-> st, warning |-> FALSE, exc |-> "IOError"]
    ELSE [store |-> Unparseable, warning |-> FALSE, exc |-> "IOError"]

\* faulty variant: the cache is written as it was loaded from the file, without the
\* translations of the run
save_translation_cache_Stale(c, st, io) ==
    IF io = "ok"
    THEN [store |-> Json(load_translation_cache(st).value), warning |-> FALSE, exc |-> ""]
    ELSE IF io = "open_fails" THEN [store |-> st, warning |-> TRUE, exc |-> ""]
    ELSE [store |-> Unparseable, warning |-> TRUE, exc |-> ""]

\* faulty variant: the entries of the file are kept and the cache of the run added
save_translation_cache_Merge(c, st, io) ==
    IF io = "ok"
    THEN LET old == load_translation_cache(st).value
         IN IF old.type = "dict" /\ c.type = "dict"
            THEN [store |-> Json(Dict([w \in DOMAIN old.map \cup DOMAIN c.map |->
                                          IF w \in DOMAIN c.map THEN c.map[w]
                                          ELSE old.map[w]])),
                  warning |-> FALSE, exc |-> ""]
            ELSE [store |-> Json(c), warning |-> FALSE, exc |-> ""]
    ELSE IF io = "open_fails" THEN [store |-> st, warning |-> TRUE, exc |-> ""]
    ELSE [store |-> Unparseable, warning |-> TRUE, exc |-> ""]

\* save_translation_cache: the file after the call, whether the warning was
\* printed and the exception that leaves the function ("" when it returns:
\* the IOError of a failed open or write is caught).  open(..., 'w')
\* truncates, so a write that fails after the open leaves a file that is
\* not valid JSON.
save_translation_cache(c, st, io) ==
    IF io = "ok" THEN [store |-> Json(c), warning |-> FALSE, exc |-> ""]
    ELSE IF io = "open_fails" THEN [store |-> st, warning |-> TRUE, exc |-> ""]
    ELSE [store |-> Unparseable, warning |-> TRUE, exc |-> ""]

(* --------------------------- translate_word --------------------------- *)

\* translator.translate(word): returns a translation or raises an Exception
TranslatorOutcomes ==
    {[ok |-> FALSE, text |-> <<>>]} \cup {[ok |-> TRUE, text |-> g] : g \in Glosses}

\* `word in cache` is defined for dicts and lists
Iterable(c) == c.type \in {"dict", "list"}

\* `word in cache`
Contains(c, word) ==
    IF c.type = "dict" THEN word \in DOMAIN c.map ELSE word \in c.items

\* faulty variant: cache = {word: translation}
SetItem_Fresh(c, word, t) == Dict([w \in {word} |-> t])

\* cache[word] = translation, for a dict
SetItem(c, word, t) ==
    Dict([w \in DOMAIN c.map \cup {word} |-> IF w = word THEN t ELSE c.map[w]])

Return(v, c, what) == [exc |-> "", ret |-> v, cache |-> c, log |-> what]
Raise(e, c, what) == [exc |-> e, ret |-> <<>>, cache |-> c, log |-> what]

\* faulty variant: the except branch stores "?" for the word
translate_word_CacheFailure(word, c, out) ==
    IF Strip(word) = <<>> \/ \A i \in DOMAIN word : word[i] \in PunctChars
    THEN Return(word, c, "skip")
    ELSE IF ~Iterable(c) THEN Raise("TypeError", c, "lookup")
    ELSE IF Contains(c, word)
         THEN IF c.type = "dict"
              THEN Return(c.map[word], c, "hit")
              ELSE Raise("TypeError", c, "lookup")
    ELSE IF ~out.ok
         THEN IF c.type = "dict"
              THEN Return(QuestionMark, SetItem(c, word, QuestionMark), "raised")
              ELSE Return(QuestionMark, c, "raised")
    ELSE IF c.type = "dict"
         THEN Return(out.text, SetItem(c, word, out.text), "ok")
         ELSE Return(QuestionMark, c, "unrecorded")

\* faulty variant: the translation is returned without being stored (no line 77)
translate_word_NoRecord(word, c, out) ==
    IF Strip(word) = <<>> \/ \A i \in DOMAIN word : word[i] \in PunctChars
    THEN Return(word, c, "skip")
    ELSE IF ~Iterable(c) THEN Raise("TypeError", c, "lookup")
    ELSE IF Contains(c, word)
         THEN IF c.type = "dict"
              THEN Return(c.map[word], c, "hit")
              ELSE Raise("TypeError", c, "lookup")
    ELSE IF ~out.ok THEN Return(QuestionMark, c, "raised")
    ELSE Return(out.text, c, "ok")

\* faulty variant: the cache is not consulted (no lines 72-73)
translate_word_NoLookup(word, c, out) ==
    IF Strip(word) = <<>> \/ \A i \in DOMAIN word : word[i] \in PunctChars
    THEN Return(word, c, "skip")
    ELSE IF ~out.ok THEN Return(QuestionMark, c, "raised")
    ELSE IF c.type = "dict"
         THEN Return(out.text, SetItem(c, word, out.text), "ok")
         ELSE Return(QuestionMark, c, "unrecorded")

\* translate_word(word, cache, translator), `out` being what the translator
\* does if it is called.  log names what the call did: "skip" (line 69),
\* "hit" (line 73), "ok" (line 78), "raised" (the translator raised),
\* "unrecorded" (the translator returned and line 77 raised), "lookup"
\* (line 72 or 73 raised).
translate_word(word, c, out) ==
    IF Strip(word) = <<>> \/ \A i \in DOMAIN word : word[i] \in PunctChars
    THEN Return(word, c, "skip")
    ELSE IF ~Iterable(c) THEN Raise("TypeError", c, "lookup")
    ELSE IF Contains(c, word)
         THEN IF c.type = "dict"
              THEN Return(c.map[word], c, "hit")
              ELSE Raise("TypeError", c, "lookup")
    ELSE IF ~out.ok THEN Return(QuestionMark, c, "raised")
    ELSE IF c.type = "dict"
         THEN Return(out.text, SetItem(c, word, out.text), "ok")
         ELSE Return(QuestionMark, c, "unrecorded")

\* the log values of calls in which translator.translate was invoked
Invoked == {"ok", "raised", "unrecorded"}

(* ------------------------------ records ------------------------------- *)

\* the dict appended at lines 114-122
ChineseRecord(word, dutch_translation) ==
    [chinese |-> word,
     pinyin |-> get_pinyin(word),
     dutch |-> dutch_translation,
     hsk_level |-> get_hsk_level(word)[1],
     frequency |-> get_hsk_level(word)[2],
     breakdown |-> get_character_breakdown(word),
     is_chinese |-> TRUE]

\* the dict appended at lines 125-133
OtherRecord(word) ==
    [chinese |-> word,
     pinyin |-> word,
     dutch |-> word,
     hsk_level |-> 0,
     frequency |-> 0,
     breakdown |-> NoBreakdown,
     is_chinese |-> FALSE]

(* ----------------------------- statistics ----------------------------- *)

\* [r for r in results if r['is_chinese']]
chinese_words(results) == SelectSeq(results, LAMBDA r : r.is_chinese)

\* the keys of {r['chinese']: r for r in chinese_words}, in insertion order
RECURSIVE DictKeys(_, _)
DictKeys(rs, seen) ==
    IF rs = <<>> THEN <<>>
    ELSE IF Head(rs).chinese \in seen THEN DictKeys(Tail(rs), seen)
    ELSE <<Head(rs).chinese>> \o DictKeys(Tail(rs), seen \cup {Head(rs).chinese})

\* the value the comprehension leaves under key k: each later record with
\* the same key replaces the earlier one
DictValue(rs, k) ==
    rs[CHOOSE i \in DOMAIN rs :
          /\ rs[i].chinese = k
          /\ \A j \in DOMAIN rs : rs[j].chinese = k => j <= i]

\* list({r['chinese']: r for r in chinese_words}.values())
unique_words(results) ==
    LET cw == chinese_words(results)
        keys == DictKeys(cw, {})
    IN [i \in DOMAIN keys |-> DictValue(cw, keys[i])]

\* faulty variant: hsk_counts.get(level, 1) + 1
hsk_counts_FromOne(uw) ==
    [l \in {uw[i].hsk_level : i \in DOMAIN uw} |->
        1 + Cardinality({i \in DOMAIN uw : uw[i].hsk_level = l})]

\* hsk_counts after the loop of lines 765-767
hsk_counts(uw) ==
    [l \in {uw[i].hsk_level : i \in DOMAIN uw} |->
        Cardinality({i \in DOMAIN uw : uw[i].hsk_level = l})]

RECURSIVE SumLen(_)
SumLen(rs) == IF rs = <<>> THEN 0 ELSE Len(Head(rs).chinese) + SumLen(Tail(rs))

\* hsk_counts.get(l, 0)
CountsGet(hc, l) == IF l \in DOMAIN hc THEN hc[l] ELSE 0

\* the figures of the stat cards and of the summary
Statistics(results) ==
    LET cw == chinese_words(results)
        uw == unique_words(results)
        hc == hsk_counts(uw)
    IN [made |-> TRUE,
        total |-> Len(cw),
        unique |-> Len(uw),
        characters |-> SumLen(cw),
        hsk12 |-> CountsGet(hc, 1) + CountsGet(hc, 2),
        unique_words |-> uw,
        hsk_counts |-> hc]

NoStatistics ==
    [made |-> FALSE, total |-> 0, unique |-> 0, characters |-> 0, hsk12 |-> 0,
     unique_words |-> <<>>, hsk_counts |-> <<>>]

(* ------------------------------- state -------------------------------- *)

VARIABLES
    store,      \* the file translation_cache.json
    input,      \* the text given to process_text, as the tokens jieba yields
    pc,         \* pc[r]: where run r is
    cache,      \* cache[r]: the local `cache` of process_text in run r
    loaded,     \* loaded[r]: what load_translation_cache returned to run r
    idx,        \* idx[r]: position of the for loop in `words`
    results,    \* results[r]: the local `results` of process_text
    trlog,      \* trlog[r][i]: what translate_word did for results[r][i]
    warned,     \* warned[r]: save_translation_cache printed its warning
    err,        \* err[r]: the exception that left process_text, "" if none
    stats,      \* stats[r]: the statistics computed from results[r]
    saveOrder,  \* the runs that called save_translation_cache, in time order
    probe,      \* the argument of a call of is_chinese on its own
    verdict     \* what that call returned ("pending" before it)

vars == <<store, input, pc, cache, loaded, idx, results, trlog, warned,
          err, stats, saveOrder, probe, verdict>>

\* token sequences of length 0..n
RECURSIVE TokenSeqs(_)
TokenSeqs(n) ==
    IF n = 0 THEN {<<>>}
    ELSE LET shorter == TokenSeqs(n - 1)
         IN shorter \cup {Append(s, t) : s \in {x \in shorter : Len(x) = n - 1}, t \in Tokens}

\* the state of the runs before any has started
InitRuns ==
    /\ pc = [r \in Runs |-> "ready"]
    /\ cache = [r \in Runs |-> EmptyDict]
    /\ loaded = [r \in Runs |-> EmptyDict]
    /\ idx = [r \in Runs |-> 1]
    /\ results = [r \in Runs |-> <<>>]
    /\ trlog = [r \in Runs |-> <<>>]
    /\ warned = [r \in Runs |-> FALSE]
    /\ err = [r \in Runs |-> ""]
    /\ stats = [r \in Runs |-> NoStatistics]
    /\ saveOrder = <<>>

Init ==
    /\ store \in InitStores
    /\ input \in TokenSeqs(MaxTokens)
    /\ InitRuns
    /\ probe = <<>>
    /\ verdict = "pending"

\* a run is over when main has finished or exited, or process_text has raised
Over(r) == pc[r] \in {"reported", "raised", "exited"}

\* runs follow one another: run r starts when the runs before it are over
InTurn(r) == \A q \in Runs : q < r => Over(q)

\* str.strip() of a text given by its tokens: the blank tokens at both ends
\* go, and the whitespace at the start of the first and the end of the last
RECURSIVE TextLStrip(_)
TextLStrip(text) ==
    IF text = <<>> THEN <<>>
    ELSE IF LStrip(Head(text)) = <<>> THEN TextLStrip(Tail(text))
    ELSE <<LStrip(Head(text))>> \o Tail(text)

RECURSIVE TextRStrip(_)
TextRStrip(text) ==
    IF text = <<>> THEN <<>>
    ELSE IF RStrip(text[Len(text)]) = <<>>
         THEN TextRStrip(SubSeq(text, 1, Len(text) - 1))
    ELSE SubSeq(text, 1, Len(text) - 1) \o <<RStrip(text[Len(text)])>>

TextStrip(text) == TextRStrip(TextLStrip(text))

\* faulty variant: main goes on with an empty text (no lines 991-993)
InputIsEmpty_Never(chinese_text) == FALSE

\* main, line 991: `not chinese_text`
InputIsEmpty(chinese_text) == chinese_text = <<>>

\* the transcriber returns (TRUE) or raises (FALSE); what the translator
\* does if it is called
StepOutcomes(transcriber) ==
    {[ok |-> o.ok, text |-> o.text, pinyin |-> p] :
        o \in TranslatorOutcomes, p \in transcriber}

\* faulty variant: every non-blank token is annotated as a Chinese word (no line 108)
Annotate_NoScriptCheck(tok, c, out) ==
    LET word == Strip(tok)
    IN IF word = <<>>
       THEN [exc |-> "", emit |-> FALSE, record |-> OtherRecord(word),
             cache |-> c, log |-> "none"]
       ELSE LET tw == translate_word(word, c, out)
            IN [exc |-> tw.exc, emit |-> tw.exc = "",
                record |-> ChineseRecord(word, tw.ret),
                cache |-> tw.cache, log |-> tw.log]

\* faulty variant: blank tokens are not skipped (no lines 104-105)
Annotate_NoBlankSkip(tok, c, out) ==
    LET word == Strip(tok)
    IN IF is_chinese(word)
       THEN LET tw == translate_word(word, c, out)
            IN [exc |-> tw.exc, emit |-> tw.exc = "",
                record |-> ChineseRecord(word, tw.ret),
                cache |-> tw.cache, log |-> tw.log]
       ELSE [exc |-> "", emit |-> TRUE, record |-> OtherRecord(word),
             cache |-> c, log |-> "none"]

\* faulty variant: what get_pinyin raises is caught per word, like a failed
\* translation, and "?" stands for the pinyin
Annotate_Recover(tok, c, out) ==
    LET word == Strip(tok)
    IN IF word = <<>>
       THEN [exc |-> "", emit |-> FALSE, record |-> OtherRecord(word),
             cache |-> c, log |-> "none"]
       ELSE IF is_chinese(word)
       THEN LET tw == translate_word(word, c, out)
            IN [exc |-> tw.exc, emit |-> tw.exc = "",
                record |-> IF out.pinyin THEN ChineseRecord(word, tw.ret)
                           ELSE [ChineseRecord(word, tw.ret) EXCEPT !.pinyin = QuestionMark],
                cache |-> tw.cache, log |-> tw.log]
       ELSE [exc |-> "", emit |-> TRUE, record |-> OtherRecord(word),
             cache |-> c, log |-> "none"]

\* one iteration of the loop of lines 102-133 on token `tok`: the record to
\* append (emit = FALSE after `continue` and after an exception), the cache
\* afterwards, the exception raised if any.  get_pinyin (line 109) is called
\* before translate_word (line 110) and nothing catches what it raises.
Annotate(tok, c, out) ==
    LET word == Strip(tok)
    IN IF word = <<>>
       THEN [exc |-> "", emit |-> FALSE, record |-> OtherRecord(word),
             cache |-> c, log |-> "none"]
       ELSE IF is_chinese(word)
       THEN IF ~out.pinyin
            THEN [exc |-> "TranscriptionError", emit |-> FALSE,
                  record |-> OtherRecord(word), cache |-> c, log |-> "none"]
            ELSE LET tw == translate_word(word, c, out)
                 IN [exc |-> tw.exc, emit |-> tw.exc = "",
                     record |-> ChineseRecord(word, tw.ret),
                     cache |-> tw.cache, log |-> tw.log]
       ELSE [exc |-> "", emit |-> TRUE, record |-> OtherRecord(word),
             cache |-> c, log |-> "none"]

\* main, lines 986-989: the input file is read and stripped; `input` is the
\* stripped text, so main runs only on texts that strip() leaves alone
Main(r) ==
    /\ pc[r] = "ready"
    /\ TextStrip(input) = input
    /\ pc' = [pc EXCEPT ![r] = "main"]
    /\ UNCHANGED <<store, input, cache, loaded, idx, results, trlog,
                   warned, err, stats, saveOrder, probe, verdict>>

\* main, lines 991-1014: sys.exit(1) on an empty text, else process_text
MainCheck(r) ==
    /\ pc[r] = "main"
    /\ pc' = [pc EXCEPT ![r] = IF InputIsEmpty(input) THEN "exited" ELSE "called"]
    /\ UNCHANGED <<store, input, cache, loaded, idx, results, trlog,
                   warned, err, stats, saveOrder, probe, verdict>>

\* process_text called with the text by a caller other than main
Call(r) ==
    /\ pc[r] = "ready"
    /\ pc' = [pc EXCEPT ![r] = "called"]
    /\ UNCHANGED <<store, input, cache, loaded, idx, results, trlog,
                   warned, err, stats, saveOrder, probe, verdict>>

\* process_text, lines 93-101: load the cache, segment the text
Load(r) ==
    /\ pc[r] = "called"
    /\ LET l == load_translation_cache(store)
       IN /\ pc' = [pc EXCEPT ![r] = IF l.exc = "" THEN "loop" ELSE "raised"]
          /\ err' = [err EXCEPT ![r] = l.exc]
          /\ cache' = [cache EXCEPT ![r] = l.value]
          /\ loaded' = [loaded EXCEPT ![r] = l.value]
    /\ UNCHANGED <<store, input, idx, results, trlog, warned, stats,
                   saveOrder, probe, verdict>>

\* one iteration of the loop with one of the outcomes `outs`
Iterate(r, outs) ==
    /\ pc[r] = "loop"
    /\ idx[r] <= Len(segment_text(input))
    /\ \E out \in outs :
         LET a == Annotate(segment_text(input)[idx[r]], cache[r], out)
         IN /\ pc' = [pc EXCEPT ![r] = IF a.exc = "" THEN "loop" ELSE "raised"]
            /\ err' = [err EXCEPT ![r] = a.exc]
            /\ cache' = [cache EXCEPT ![r] = a.cache]
            /\ results' = [results EXCEPT ![r] =
                              IF a.emit THEN Append(@, a.record) ELSE @]
            /\ trlog' = [trlog EXCEPT ![r] =
                              IF a.emit THEN Append(@, a.log) ELSE @]
    /\ idx' = [idx EXCEPT ![r] = @ + 1]
    /\ UNCHANGED <<store, input, loaded, warned, stats, saveOrder,
                   probe, verdict>>

\* process_text, lines 102-133: one iteration of the loop
Word(r) == Iterate(r, StepOutcomes({TRUE}))

\* the iteration on a Chinese word for which get_pinyin raises
WordTranscriberFails(r) ==
    /\ pc[r] = "loop"
    /\ idx[r] <= Len(segment_text(input))
    /\ is_chinese(Strip(segment_text(input)[idx[r]]))
    /\ Iterate(r, StepOutcomes({FALSE}))

\* faulty variant: the cache is saved and results returned before the last token
LoopIsOver_Early(i, words) == i >= Len(words)

\* the for loop of line 102 has gone through `words`
LoopIsOver(i, words) == i > Len(words)

\* process_text, lines 135-138: save the cache and return results
Save(r) ==
    /\ pc[r] = "loop"
    /\ LoopIsOver(idx[r], segment_text(input))
    /\ \E io \in WriteOutcomes :
         LET s == save_translation_cache(cache[r], store, io)
         IN /\ store' = s.store
            /\ warned' = [warned EXCEPT ![r] = s.warning]
            /\ pc' = [pc EXCEPT ![r] = IF s.exc = "" THEN "returned" ELSE "raised"]
            /\ err' = [err EXCEPT ![r] = s.exc]
    /\ saveOrder' = Append(saveOrder, r)
    /\ UNCHANGED <<input, cache, loaded, idx, results, trlog, stats,
                   probe, verdict>>

\* generate_html lines 761-767 and main lines 1027-1036 on the returned results
GenerateHtml(r) ==
    /\ pc[r] = "returned"
    /\ stats' = [stats EXCEPT ![r] = Statistics(results[r])]
    /\ pc' = [pc EXCEPT ![r] = "reported"]
    /\ UNCHANGED <<store, input, cache, loaded, idx, results, trlog,
                   warned, err, saveOrder, probe, verdict>>

\* the steps of a run once it has started
Run(r) ==
    \/ MainCheck(r)
    \/ Load(r)
    \/ Word(r)
    \/ Save(r)
    \/ GenerateHtml(r)

Next ==
    \E r \in Runs :
        \/ InTurn(r) /\ Main(r)
        \/ InTurn(r) /\ Call(r)
        \/ Run(r)

\* runs one after the other, started by main or by a call of process_text
Spec == Init /\ [][Next]_vars

(* ------------------------- derived quantities ------------------------- *)

\* the tokens of a text that are non-empty after strip(), stripped, in order
RECURSIVE Surfaces(_)
Surfaces(toks) ==
    IF toks = <<>> THEN <<>>
    ELSE IF Strip(Head(toks)) = <<>> THEN Surfaces(Tail(toks))
    ELSE <<Strip(Head(toks))>> \o Surfaces(Tail(toks))

\* process_text has returned to its caller in run r
Returned(r) == pc[r] \in {"returned", "reported"}

\* results[r] holds one record per non-blank token of the input, in order
Complete(r) ==
    LET sf == Surfaces(segment_text(input))
    IN /\ Len(results[r]) = Len(sf)
       /\ \A i \in DOMAIN sf : results[r][i].chinese = sf[i]

\* the records of run r for which translate_word did one of `what`
Logged(r, what) == {i \in DOMAIN trlog[r] : trlog[r][i] \in what}

\* the words the runs have met
WordsMet ==
    UNION {{results[r][i].chinese : i \in DOMAIN results[r]} : r \in Runs}

\* the places (run, index) where word w was handled as `what`, in time order
Places(w, what) ==
    {<<r, i>> \in Runs \X (1..MaxTokens) :
        i \in Logged(r, what) /\ results[r][i].chinese = w}

Before(p, q) == p[1] < q[1] \/ (p[1] = q[1] /\ p[2] < q[2])

\* no run has failed to write the cache file
AllSaved == \A r \in Runs : ~warned[r]

(* ------------------------------- claims ------------------------------- *)

\* C1 (as claimed): whenever the translator raised for a word in a run, the
\* record of that occurrence has dutch = "?" and is_chinese = TRUE, no
\* exception leaves process_text, and when the loop is over process_text
\* returns one record for every non-blank token, in order.
C1_Claim ==
    \A r \in Runs :
        Logged(r, {"raised"}) # {} =>
            /\ \A i \in Logged(r, {"raised"}) :
                  results[r][i].dutch = QuestionMark /\ results[r][i].is_chinese
            /\ pc[r] # "raised"
            /\ err[r] = ""
            /\ Returned(r) => Complete(r)

\* C2 (as claimed): while every save succeeds, the translator is invoked at
\* most once for each distinct word, over all runs.
C2_Claim ==
    AllSaved => \A w \in WordsMet : Cardinality(Places(w, Invoked)) <= 1

\* C2 (amended): while every save succeeds, a translator call for a word that
\* returned and was recorded in the cache is the last call for that word, in
\* that run and in the later runs; only calls that failed are repeated, and
\* never for a word that is in the cache.
C2_OncePerRecordedWord ==
    AllSaved =>
        \A w \in WordsMet :
            /\ Cardinality(Places(w, {"ok"})) <= 1
            /\ \A p \in Places(w, {"ok", "hit"}) :
                  \A q \in Places(w, Invoked) : ~Before(p, q)

\* C2 witness: a word whose call failed twice, and a word
\* translated in one run and served from the cache in the next
C2_Witness ==
    /\ AllSaved
    /\ \E w \in WordsMet : Cardinality(Places(w, {"raised"})) >= 2
    /\ \E w \in WordsMet :
          \E p \in Places(w, {"ok"}), q \in Places(w, {"hit"}) : p[1] < q[1]

\* C3: a linguistic word that is a key of the cache returned by
\* load_translation_cache is never sent to the translator in that run, and
\* each of its records carries the loaded value as its gloss.
C3_LoadedWordsNotTranslated ==
    \A r \in Runs :
        \A i \in DOMAIN results[r] :
            LET rec == results[r][i]
            IN (/\ rec.is_chinese
                /\ loaded[r].type = "dict"
                /\ rec.chinese \in DOMAIN loaded[r].map)
               => /\ trlog[r][i] \notin Invoked
                  /\ rec.dutch = loaded[r].map[rec.chinese]

\* C3 witness: a run that loaded a cache holding "一", has translated another
\* word since, and has emitted a record for "一"
C3_Witness ==
    \E r \in Runs :
        /\ loaded[r].type = "dict"
        /\ Yi \in DOMAIN loaded[r].map
        /\ cache[r] # loaded[r]
        /\ \E i \in DOMAIN results[r] : i > 1 /\ results[r][i].chinese = Yi

\* the premise of C4 for runs r and r + 1: run r returned and saved its cache,
\* run r + 1 has returned
TwoRuns(r) ==
    /\ r + 1 \in Runs
    /\ pc[r] = "reported"
    /\ ~warned[r]
    /\ Returned(r + 1)

C5_Claim ==
    \A r \in Runs : err[r] = "" /\ loaded[r].type = "dict"

\* C6: a failed write of the cache file is only a warning: the step of
\* process_text in which the write fails prints the warning, returns the
\* records computed by the loop, one per non-blank token, unchanged, and
\* raises nothing.
C6_SaveFailureIsWarning ==
    [][\A r \in Runs :
          (/\ pc[r] = "loop"
           /\ idx[r] > Len(segment_text(input))
           /\ pc'[r] # "loop"
           /\ (store' # Json(cache[r]) \/ warned'[r]))
          => /\ warned'[r]
             /\ pc'[r] = "returned"
             /\ err'[r] = ""
             /\ results'[r] = results[r]
             /\ Complete(r)]_vars

\* C6 witness: a run returned records after the warning
C6_Witness ==
    \E r \in Runs : warned[r] /\ Returned(r) /\ Len(results[r]) = MaxTokens

\* C7: the iteration on a non-blank token that is_chinese rejects appends the
\* record with pinyin = dutch = chinese, hsk_level 0 and no breakdown, and
\* neither calls the translator nor reads or writes the cache: the cache is
\* unchanged and the iteration succeeds whatever the cache is.
C7_NonChinesePassThrough ==
    [][\A r \in Runs :
          (/\ pc[r] = "loop"
           /\ idx'[r] = idx[r] + 1
           /\ Strip(segment_text(input)[idx[r]]) # <<>>
           /\ ~is_chinese(Strip(segment_text(input)[idx[r]])))
          => LET word == Strip(segment_text(input)[idx[r]])
                 rec == results'[r][Len(results'[r])]
             IN /\ Len(results'[r]) = Len(results[r]) + 1
                /\ rec.chinese = word /\ rec.pinyin = word /\ rec.dutch = word
                /\ rec.hsk_level = 0
                /\ rec.breakdown = NoBreakdown
                /\ ~rec.is_chinese
                /\ trlog'[r][Len(trlog'[r])] = "none"
                /\ cache'[r] = cache[r]
                /\ store' = store
                /\ pc'[r] = "loop"]_vars

\* C7 witness: a run whose cache is not even a container has emitted the
\* record of a non-linguistic token
C7_Witness ==
    \E r \in Runs :
        /\ cache[r].type = "number"
        /\ \E i \in DOMAIN results[r] : ~results[r][i].is_chinese

\* C8: the records process_text returns are, in order, one per token that is
\* non-empty after strip(), and each is_chinese flag is is_chinese of the
\* record's surface.
C8_OneRecordPerToken ==
    \A r \in Runs :
        Returned(r) =>
            /\ Complete(r)
            /\ \A i \in DOMAIN results[r] :
                  results[r][i].is_chinese = is_chinese(results[r][i].chinese)

\* C8 witness: a text with a blank token and a non-blank one was processed
C8_Witness ==
    \E r \in Runs :
        /\ Returned(r)
        /\ Len(segment_text(input)) = MaxTokens
        /\ Len(results[r]) = MaxTokens - 1
        /\ Len(results[r]) >= 1

\* the first record of rs whose surface is k
FirstRecord(rs, k) ==
    rs[CHOOSE i \in DOMAIN rs :
          /\ rs[i].chinese = k
          /\ \A j \in DOMAIN rs : rs[j].chinese = k => i <= j]

\* C9 (as claimed): the unique-word list holds one entry per distinct
\* linguistic surface, and the entry is the record of the first occurrence.
C9_Claim ==
    \A r \in Runs :
        stats[r].made =>
            LET uw == stats[r].unique_words
                cw == chinese_words(results[r])
            IN /\ {uw[i].chinese : i \in DOMAIN uw} = {cw[i].chinese : i \in DOMAIN cw}
               /\ \A i, j \in DOMAIN uw : uw[i].chinese = uw[j].chinese => i = j
               /\ \A i \in DOMAIN uw : uw[i] = FirstRecord(cw, uw[i].chinese)

RECURSIVE SumCounts(_, _)
SumCounts(hc, levels) ==
    IF levels = {} THEN 0
    ELSE LET l == CHOOSE x \in levels : TRUE
         IN hc[l] + SumCounts(hc, levels \ {l})

\* C10: in the statistics the unique-word count never exceeds the
\* linguistic-word count, the per-level counts add up to the unique-word
\* count, and for no records all counts are zero and the list is empty.
C10_CountsAgree ==
    \A r \in Runs :
        stats[r].made =>
            /\ stats[r].unique <= stats[r].total
            /\ SumCounts(stats[r].hsk_counts, DOMAIN stats[r].hsk_counts)
                  = stats[r].unique
            /\ results[r] = <<>> =>
                  /\ stats[r].total = 0 /\ stats[r].unique = 0
                  /\ stats[r].characters = 0 /\ stats[r].hsk12 = 0
                  /\ stats[r].unique_words = <<>>
                  /\ DOMAIN stats[r].hsk_counts = {}

\* C10 witness: statistics of a text with a repeated word
C10_Witness ==
    \E r \in Runs :
        /\ stats[r].made
        /\ stats[r].total = MaxTokens
        /\ stats[r].unique < stats[r].total
        /\ stats[r].unique >= 1

\* the runs that have called save_translation_cache
Savers == {saveOrder[i] : i \in DOMAIN saveOrder}

\* the text is empty, or empty after trimming
TextIsEmpty == TextStrip(input) = <<>>

\* C11 (as claimed): on an empty text no run, whether started by main or by
\* a call of process_text, loads the cache, annotates, returns records or
\* writes the cache file.
C11_Claim ==
    \A r \in Runs :
        TextIsEmpty => pc[r] \notin {"loop", "returned", "reported"} /\ r \notin Savers

\* C11 (amended): main ends a run on an empty text with sys.exit(1) before
\* process_text is called: nothing is loaded, annotated, returned or written,
\* and the run does nothing afterwards.  process_text has no such check:
\* called with an empty text it goes on to load the cache.
C11_OnlyMainRejectsEmpty ==
    [][\A r \in Runs :
          /\ (pc[r] = "main" /\ TextIsEmpty) =>
                /\ pc'[r] = "exited"
                /\ store' = store /\ saveOrder' = saveOrder
                /\ cache'[r] = cache[r] /\ loaded'[r] = loaded[r]
                /\ results'[r] = results[r] /\ trlog'[r] = trlog[r]
          /\ pc[r] = "exited" => pc'[r] = "exited"
          /\ (pc[r] = "called" /\ TextIsEmpty) => pc'[r] \in {"loop", "raised"}]_vars

\* C11 witness: on the empty text one run was ended by main and another,
\* a call of process_text, returned after writing the cache file
C11_Witness ==
    \E r, q \in Runs :
        /\ TextIsEmpty
        /\ pc[r] = "exited"
        /\ Returned(q) /\ results[q] = <<>> /\ q \in Savers

\* the words for which the translator returned a translation in run r
Translated(r) == {results[r][i].chinese : i \in Logged(r, {"ok", "unrecorded"})}

\* C12 (as claimed): right after a run whose save succeeded, the cache file
\* holds what the run loaded, extended with one entry, word -> returned
\* translation, for each word whose translator call succeeded, and nothing
\* else.
C12_Claim ==
    \A r \in Runs :
        (pc[r] = "returned" /\ ~warned[r]) =>
            /\ store.kind = "json"
            /\ IF Translated(r) = {}
               THEN store.value = loaded[r]
               ELSE /\ store.value.type = "dict"
                    /\ DOMAIN store.value.map = DOMAIN loaded[r].map \cup Translated(r)
                    /\ \A w \in DOMAIN loaded[r].map :
                          store.value.map[w] = loaded[r].map[w]
                    /\ \A i \in Logged(r, {"ok"}) :
                          store.value.map[results[r][i].chinese] = results[r][i].dutch

(* --------------------------- is_chinese alone -------------------------- *)

\* characters around both ends of the range: U+4DFF, U+4E00, U+9FFF, U+A000,
\* and "2", "a", "。"
ProbeChars == {19967, 19968, 40959, 40960, 50, 97, 12290}

\* strings of length 0..n over ProbeChars
RECURSIVE ProbeTexts(_)
ProbeTexts(n) ==
    IF n = 0 THEN {<<>>}
    ELSE LET shorter == ProbeTexts(n - 1)
         IN shorter \cup {Append(s, c) : s \in {x \in shorter : Len(x) = n - 1}, c \in ProbeChars}

InitClassify ==
    /\ store = Absent
    /\ input = <<>>
    /\ InitRuns
    /\ probe \in ProbeTexts(MaxProbeLen)
    /\ verdict = "pending"

\* a call is_chinese(probe)
Classify ==
    /\ verdict = "pending"
    /\ verdict' = IF is_chinese(probe) THEN "True" ELSE "False"
    /\ UNCHANGED <<store, input, pc, cache, loaded, idx, results, trlog, warned,
                   err, stats, saveOrder, probe>>

\* is_chinese called on strings of its own
SpecClassify == InitClassify /\ [][Classify]_vars

\* C13: is_chinese returns True exactly for the strings that hold at least
\* one character in U+4E00..U+9FFF, both ends included, whatever else they
\* hold; the empty string gives False.
C13_IsChineseIffIdeograph ==
    verdict # "pending" =>
        /\ verdict = "True" <=>
              \E i \in DOMAIN probe : probe[i] >= 19968 /\ probe[i] <= 40959
        /\ probe = <<>> => verdict = "False"

\* C13 witness: True for a string whose only ideograph is U+9FFF, after
\* a digit
C13_Witness ==
    /\ verdict = "True"
    /\ Len(probe) >= 2
    /\ probe[1] = 50
    /\ probe[Len(probe)] = 40959

(* ------------------------- claims on the cache ------------------------- *)

\* run r has loaded its cache
HasLoaded(r) == pc[r] \in {"loop", "returned", "reported"} \/ (pc[r] = "raised" /\ err[r] # "UnicodeDecodeError")

\* C14: a failed translator call leaves the cache of the run as it was: at
\* every moment the cache is what was loaded plus, for each word whose
\* call returned and was recorded, that translation; a word whose calls
\* all failed has no entry, and "?" is never stored for a failure.
C14_CacheIsLoadedPlusTranslated ==
    \A r \in Runs :
        HasLoaded(r) =>
            IF loaded[r].type = "dict"
            THEN /\ cache[r].type = "dict"
                 /\ DOMAIN cache[r].map =
                       DOMAIN loaded[r].map
                          \cup {results[r][i].chinese : i \in Logged(r, {"ok"})}
                 /\ \A w \in DOMAIN loaded[r].map : cache[r].map[w] = loaded[r].map[w]
                 /\ \A i \in Logged(r, {"ok"}) :
                       cache[r].map[results[r][i].chinese] = results[r][i].dutch
            ELSE cache[r] = loaded[r]

\* C14 witness: a run in which one word failed and has no entry while
\* another word was translated and recorded
C14_Witness ==
    \E r \in Runs :
        /\ cache[r].type = "dict"
        /\ cache[r] # loaded[r]
        /\ \E i \in Logged(r, {"raised"}) :
              results[r][i].chinese \notin DOMAIN cache[r].map

\* C15: while a run is in its loop, no step removes a key from its cache or
\* changes the value of a key that is present.
C15_CacheOnlyGrows ==
    [][\A r \in Runs :
          pc[r] = "loop" =>
              /\ cache'[r].type = cache[r].type
              /\ cache'[r].items = cache[r].items
              /\ DOMAIN cache[r].map \subseteq DOMAIN cache'[r].map
              /\ \A w \in DOMAIN cache[r].map : cache'[r].map[w] = cache[r].map[w]]_vars

\* C15 witness: a cache that was loaded with one entry and has got another
C15_Witness ==
    \E r \in Runs :
        /\ loaded[r].type = "dict"
        /\ DOMAIN loaded[r].map # {}
        /\ DOMAIN cache[r].map # DOMAIN loaded[r].map

\* C16: the cache file changes, and save_translation_cache is called, only
\* in the step of a run that comes after the whole loop, when every non-blank
\* token has its record, and then for the first time in that run; a run that
\* has returned has made that call, a run in its loop has not.
C16_SavedOnceAfterTheLoop ==
    /\ [][(store' # store \/ saveOrder' # saveOrder) =>
             \E r \in Runs :
                 /\ pc[r] = "loop"
                 /\ idx[r] = Len(segment_text(input)) + 1
                 /\ Complete(r)
                 /\ r \notin Savers
                 /\ saveOrder' = Append(saveOrder, r)
                 /\ pc'[r] = "returned"]_vars
    /\ [](\A r \in Runs :
             /\ Returned(r) => r \in Savers
             /\ pc[r] = "loop" => r \notin Savers)

\* C16 witness: a run has returned after a failed and a recorded translation
C16_Witness ==
    \E r \in Runs :
        /\ Returned(r)
        /\ saveOrder = <<r>>
        /\ Logged(r, {"raised"}) # {}
        /\ Logged(r, {"ok"}) # {}

(* --------------------------- interleaved runs -------------------------- *)

\* the two runs that work on the same cache file
Callers == {1, 2}

\* two calls of process_text on the same cache file, started at any time
NextInterleaved ==
    \E r \in Callers :
        \/ Call(r)
        \/ Load(r)
        \/ Word(r)
        \/ Save(r)

SpecInterleaved == Init /\ [][NextInterleaved]_vars

\* the run that called save_translation_cache last
LastSaver == saveOrder[Len(saveOrder)]

\* C17: when runs interleave on the cache file the last writer wins: after a
\* successful save the file holds the cache of the run that saved last, and
\* nothing of the runs that saved before it.
C17_LastWriterWins ==
    (saveOrder # <<>> /\ ~warned[LastSaver]) => store = Json(cache[LastSaver])

\* C17 witness: two runs loaded the same file before either saved; the one
\* that saved first had translated a word, the one that saved last had not,
\* and the file no longer holds that word
C17_Witness ==
    \E a, b \in Runs :
        /\ saveOrder = <<a, b>>
        /\ a # b
        /\ ~warned[a] /\ ~warned[b]
        /\ loaded[a] = loaded[b]
        /\ loaded[a].type = "dict"
        /\ \E i \in Logged(a, {"ok"}) :
              /\ results[a][i].chinese \in DOMAIN cache[a].map
              /\ results[a][i].chinese \notin DOMAIN store.value.map

(* ------------------------ a failing transcriber ------------------------ *)

\* two runs as in Spec, with a transcriber that may raise
NextTranscriber ==
    \E r \in Callers :
        \/ InTurn(r) /\ Main(r)
        \/ InTurn(r) /\ Call(r)
        \/ Run(r)
        \/ WordTranscriberFails(r)

SpecTranscriber == Init /\ [][NextTranscriber]_vars

\* C18: what get_pinyin raises leaves process_text: the step ends the run
\* with the exception, appends no record and writes nothing; the run never
\* returns or saves afterwards; and as no step of a run before its return
\* changes the cache file, the file is as the run loaded it, without the
\* translations the run had recorded.
C18_TranscriberFailureIsFatal ==
    /\ [][\A r \in Runs :
             /\ WordTranscriberFails(r) =>
                   /\ pc'[r] = "raised"
                   /\ err'[r] = "TranscriptionError"
                   /\ store' = store
                   /\ results'[r] = results[r]
             /\ pc[r] = "raised" => pc'[r] = "raised"
             /\ (pc[r] = "loop" /\ pc'[r] # "returned") => store' = store]_vars
    /\ [](\A r \in Runs :
             err[r] = "TranscriptionError" =>
                 /\ pc[r] = "raised"
                 /\ r \notin Savers
                 /\ ~stats[r].made)

\* C18 witness: the first run found no cache file, recorded a translation,
\* then met the failure: there is still no cache file
C18_Witness ==
    /\ err[1] = "TranscriptionError"
    /\ Logged(1, {"ok"}) # {}
    /\ cache[1] # loaded[1]
    /\ store = Absent
    /\ saveOrder = <<>>

====
